---- MODULE Spec2Model ----
(***************************************************************************)
(* A model of python_service.py, the Python analysis service of the        *)
(* phase-3 cross-language demo: its request handlers, its two in-memory    *)
(* stores and its line-oriented analysis functions.                        *)
(*                                                                         *)
(* Texts are TLA+ strings; the string helpers below are written at the     *)
(* level of characters, as str.strip, str.split, str.startswith, `in` and  *)
(* str.lower work.                                                         *)
(***************************************************************************)
EXTENDS Integers, Sequences, FiniteSets, TLC

VARIABLES
    text,               \* SpecAnalysis: the code_content under analysis
    nfrags,             \* SpecAnalysis: number of fragments text is built from
    out,                \* SpecAnalysis: what the last analysis call returned
    python_result,      \* SpecMerge: first argument of the merger
    go_result,          \* SpecMerge: second argument of the merger
    merged,             \* SpecMerge: generate_cross_language_insights(py, go)
    swapped,            \* SpecMerge: generate_cross_language_insights(go, py)
    clock,              \* service: time.time(), in ticks
    processing_jobs,    \* service: job id -> reference to a ProcessingJob
    analysis_results,   \* service: analysis id -> AnalysisResult
    jobs,               \* service: the ProcessingJob objects, by reference
    pc,                 \* service: where each worker thread stands
    frame,              \* service: each worker thread's local variables
    response,           \* service: the last response sent
    calls,              \* service: the calls the last handler made
    last_store          \* history: job id -> request that stored it last

analysisVars == <<text, nfrags, out>>
mergeVars == <<python_result, go_result, merged, swapped>>
serviceVars == <<clock, processing_jobs, analysis_results, jobs, pc, frame,
                 response, calls, last_store>>
vars == <<text, nfrags, out, python_result, go_result, merged, swapped,
          clock, processing_jobs, analysis_results, jobs, pc, frame,
          response, calls, last_store>>

(***************************************************************************)
(* Bounds of the model.                                                    *)
(***************************************************************************)
MaxFrags == 3
MaxPatterns == 2
MaxEntities == 1

(***************************************************************************)
(* Strings.                                                                *)
(***************************************************************************)
Char(s, i) == SubSeq(s, i, i)

\* The whitespace characters of the model's alphabet (str.isspace).
IsSpace(c) == c \in {" ", "\t", "\n", "\r"}

\* sub in s
Contains(s, sub) ==
    \E i \in 1..(Len(s) - Len(sub) + 1) : SubSeq(s, i, i + Len(sub) - 1) = sub

\* s.startswith(p)
StartsWith(s, p) == Len(s) >= Len(p) /\ SubSeq(s, 1, Len(p)) = p

\* s.strip(): s without its leading and trailing whitespace.
StripIdentity(s) == s

Strip(s) ==
    LET keep == {i \in 1..Len(s) : ~IsSpace(Char(s, i))}
    IN  IF keep = {} THEN ""
        ELSE LET lo == CHOOSE i \in keep : \A j \in keep : i <= j
                 hi == CHOOSE i \in keep : \A j \in keep : j <= i
             IN  SubSeq(s, lo, hi)

RECURSIVE SplitFrom(_, _, _, _)
SplitFrom(s, sep, start, i) ==
    IF i > Len(s) THEN <<SubSeq(s, start, Len(s))>>
    ELSE IF Char(s, i) = sep
         THEN <<SubSeq(s, start, i - 1)>> \o SplitFrom(s, sep, i + 1, i + 1)
         ELSE SplitFrom(s, sep, start, i + 1)

\* s.split(sep) for a one-character sep: always at least one piece.
Split(s, sep) == SplitFrom(s, sep, 1, 1)

RECURSIVE TokensFrom(_, _, _)
TokensFrom(s, start, i) ==
    IF i > Len(s)
    THEN IF start < i THEN <<SubSeq(s, start, Len(s))>> ELSE <<>>
    ELSE IF IsSpace(Char(s, i))
         THEN (IF start < i THEN <<SubSeq(s, start, i - 1)>> ELSE <<>>)
              \o TokensFrom(s, i + 1, i + 1)
         ELSE TokensFrom(s, start, i + 1)

\* s.split(): the runs of non-whitespace characters, possibly none.
SplitWs(s) == TokensFrom(s, 1, 1)

\* Python indexing seq[i], i counted from 0, or from the end when negative.
HasItem(seq, i) == IF i >= 0 THEN i < Len(seq) ELSE -i <= Len(seq)
Item(seq, i) == IF i >= 0 THEN seq[i + 1] ELSE seq[Len(seq) + i + 1]

\* dict.get(key, default)
Get(d, key, default) == IF key \in DOMAIN d THEN d[key] ELSE default

Raise(e) == [exc |-> e]
Raised(r) == r.exc # "none"

(***************************************************************************)
(* analyze_code_structure: the line loop and the whole-text checks.        *)
(***************************************************************************)
EmptyScan == [exc |-> "none", entities |-> <<>>, relationships |-> <<>>,
              patterns |-> <<>>]

\* One iteration of the loop `for i, line in enumerate(lines)`.
ScanLine(acc, rawline, i) ==
    LET line == Strip(rawline) IN
    IF acc.exc # "none" THEN acc
    ELSE IF StartsWith(line, "func ") \/ StartsWith(line, "def ")
    THEN LET toks == SplitWs(Item(Split(line, "("), 0))
         IN  IF ~HasItem(toks, -1) THEN [acc EXCEPT !.exc = "IndexError"]
             ELSE [acc EXCEPT !.entities = Append(@,
                      [type |-> "function", name |-> Item(toks, -1),
                       line |-> i + 1])]
    ELSE IF StartsWith(line, "type ") \/ StartsWith(line, "class ")
    THEN LET toks == SplitWs(line)
         IN  IF ~HasItem(toks, 1) THEN [acc EXCEPT !.exc = "IndexError"]
             ELSE [acc EXCEPT !.entities = Append(@,
                      [type |-> "type",
                       name |-> Item(Split(Item(Split(Item(toks, 1), "("), 0),
                                           "["), 0),
                       line |-> i + 1])]
    ELSE IF Contains(line, "chan ") \/ Contains(line, "make(chan")
    THEN [acc EXCEPT !.patterns = Append(@, "channel_usage")]
    ELSE IF StartsWith(line, "go ")
    THEN LET toks == SplitWs(line)
         IN  IF ~HasItem(toks, 1) THEN [acc EXCEPT !.exc = "IndexError"]
             ELSE [acc EXCEPT
                      !.patterns = Append(@, "goroutine_launch"),
                      !.relationships = Append(@,
                         [type |-> "launches", source |-> "current_function",
                          target |-> Item(Split(Item(toks, 1), "("), 0),
                          line |-> i + 1])]
    ELSE acc

RECURSIVE ScanFromReversed(_, _, _)
ScanFromReversed(acc, lines, i) ==
    IF i >= Len(lines) THEN acc
    ELSE ScanLine(ScanFromReversed(acc, lines, i + 1), lines[i + 1], i)

\* for i, line in enumerate(lines): the lines in order, i counted from 0.
RECURSIVE ScanFrom(_, _, _)
ScanFrom(acc, lines, i) ==
    IF i >= Len(lines) THEN acc
    ELSE ScanFrom(ScanLine(acc, lines[i + 1], i), lines, i + 1)

\* The three whole-text checks after the loop.
CommonPatterns(code_content) ==
    (IF Contains(code_content, "select {") THEN <<"select_pattern">> ELSE <<>>)
    \o (IF Contains(code_content, "sync.WaitGroup")
        THEN <<"wait_group_pattern">> ELSE <<>>)
    \o (IF Contains(code_content, "context.Context")
        THEN <<"context_pattern">> ELSE <<>>)

Range(seq) == {seq[i] : i \in DOMAIN seq}

\* list(set(...)): the elements of a set, once each, in an order the language
\* does not fix.  No formula below reads that order.
RECURSIVE ListOfSet(_)
ListOfSet(S) ==
    IF S = {} THEN <<>>
    ELSE LET x == CHOOSE y \in S : TRUE IN <<x>> \o ListOfSet(S \ {x})

\* The return statement.
ScanResult(acc, code_content) ==
    IF acc.exc # "none" THEN Raise(acc.exc)
    ELSE [exc |-> "none",
          entities_count |-> Len(acc.entities),
          relationships_count |-> Len(acc.relationships),
          entities |-> acc.entities,
          relationships |-> acc.relationships,
          patterns |->
              ListOfSet(Range(acc.patterns \o CommonPatterns(code_content))),
          analysis_type |-> "structure_analysis"]

analyze_code_structure(code_content) ==
    ScanResult(ScanFrom(EmptyScan, Split(code_content, "\n"), 0), code_content)

(***************************************************************************)
(* The language-specific analyses.                                         *)
(***************************************************************************)
\* Lines 244-259: what analyze_python_code adds to the scan's result.
AddPythonPatterns(result, code_content) ==
    LET python_patterns ==
            (IF Contains(code_content, "async def")
             THEN <<"async_function">> ELSE <<>>)
            \o (IF Contains(code_content, "await ")
                THEN <<"await_usage">> ELSE <<>>)
            \o (IF Contains(code_content, "@")
                THEN <<"decorator_usage">> ELSE <<>>)
            \o (IF Contains(code_content, "yield")
                THEN <<"generator_pattern">> ELSE <<>>)
    IN  IF Raised(result) THEN result
        ELSE [python_patterns |-> python_patterns, language |-> "python"]
             @@ result

analyze_python_code(code_content) ==
    AddPythonPatterns(analyze_code_structure(code_content), code_content)

\* Lines 265-280: what analyze_go_code adds to the scan's result.
AddGoPatterns(result, code_content) ==
    LET go_patterns ==
            (IF Contains(code_content, "[") /\ Contains(code_content, "]")
                /\ Contains(code_content, "func")
             THEN <<"generics_usage">> ELSE <<>>)
            \o (IF Contains(code_content, "interface{")
                THEN <<"interface_definition">> ELSE <<>>)
            \o (IF Contains(code_content, "defer ")
                THEN <<"defer_usage">> ELSE <<>>)
            \o (IF Contains(code_content, "recover()")
                THEN <<"panic_recovery">> ELSE <<>>)
    IN  IF Raised(result) THEN result
        ELSE [go_patterns |-> go_patterns, language |-> "go"] @@ result

analyze_go_code(code_content) ==
    AddGoPatterns(analyze_code_structure(code_content), code_content)

(***************************************************************************)
(* str.lower, on the ASCII letters.                                        *)
(***************************************************************************)
UpperLetters == "ABCDEFGHIJKLMNOPQRSTUVWXYZ"
LowerLetters == "abcdefghijklmnopqrstuvwxyz"

LowerChar(c) ==
    IF \E i \in 1..Len(UpperLetters) : Char(UpperLetters, i) = c
    THEN Char(LowerLetters,
              CHOOSE i \in 1..Len(UpperLetters) : Char(UpperLetters, i) = c)
    ELSE c

RECURSIVE Lower(_)
Lower(s) ==
    IF Len(s) = 0 THEN ""
    ELSE LowerChar(Char(s, 1)) \o Lower(SubSeq(s, 2, Len(s)))

(***************************************************************************)
(* extract_design_patterns: four independent predicates over the text.     *)
(***************************************************************************)
WorkerPoolMarkers(code_content) ==
    \A keyword \in {"chan", "goroutine", "worker"} :
        Contains(code_content, keyword)

PipelineMarkersSpaced(code_content) ==
    Contains(code_content, "chan ") /\ Contains(code_content, "select")

PipelineMarkers(code_content) ==
    Contains(code_content, "chan") /\ Contains(code_content, "select")

ProducerConsumerMarkers(code_content) ==
    Contains(code_content, "Producer") /\ Contains(code_content, "Consumer")

SingletonMarkers(code_content) ==
    \/ Contains(code_content, "sync.Once")
    \/ (Contains(Lower(code_content), "once")
        /\ Contains(Lower(code_content), "do"))

extract_design_patterns(code_content) ==
    LET patterns ==
            (IF WorkerPoolMarkers(code_content)
             THEN <<"worker_pool">> ELSE <<>>)
            \o (IF PipelineMarkers(code_content)
                THEN <<"pipeline">> ELSE <<>>)
            \o (IF ProducerConsumerMarkers(code_content)
                THEN <<"producer_consumer">> ELSE <<>>)
            \o (IF SingletonMarkers(code_content)
                THEN <<"singleton">> ELSE <<>>)
    IN  [exc |-> "none",
         design_patterns |-> patterns,
         pattern_count |-> Len(patterns),
         analysis_type |-> "design_patterns"]

(***************************************************************************)
(* calculate_complexity_score and generate_analysis_report.  The score,    *)
(* round(0.1 e + 0.2 r + 0.5 p, 2), is kept in hundredths.                 *)
(***************************************************************************)
calculate_complexity_score(structure, patterns) ==
    LET base_score == structure.entities_count * 10
        relationship_score == structure.relationships_count * 20
        pattern_score == Len(patterns.design_patterns) * 50
    IN  base_score + relationship_score + pattern_score

\* Lines 313-323: the report built from the two analyses.
BuildReport(structure_analysis, pattern_analysis) ==
    IF Raised(structure_analysis) THEN structure_analysis
    ELSE [exc |-> "none",
          structure |-> structure_analysis,
          patterns |-> pattern_analysis,
          summary |->
             [total_entities |-> structure_analysis.entities_count,
              total_relationships |-> structure_analysis.relationships_count,
              design_patterns |-> Len(pattern_analysis.design_patterns),
              complexity_score |->
                  calculate_complexity_score(structure_analysis,
                                             pattern_analysis)],
          analysis_type |-> "comprehensive_report"]

generate_analysis_report(code_content) ==
    BuildReport(analyze_code_structure(code_content),
                extract_design_patterns(code_content))

(***************************************************************************)
(* generate_cross_language_insights.  Its arguments are dicts, here        *)
(* functions on a set of keys; a key may be missing.  similarity_score, a  *)
(* quotient of two lengths, is kept as the pair of the two.  An insight    *)
(* string that joins a set of patterns is kept as its prefix and the set.  *)
(***************************************************************************)
Max(a, b) == IF a >= b THEN a ELSE b

\* unique_py = py_patterns - go_patterns
UniquePy(py_patterns, go_patterns) == py_patterns \ go_patterns

UniqueGoCopiedFromPy(py_patterns, go_patterns) == py_patterns \ go_patterns

\* unique_go = go_patterns - py_patterns
UniqueGo(py_patterns, go_patterns) == go_patterns \ py_patterns

SimilarityScoreNoOverlap(common_patterns, py_patterns, go_patterns) ==
    [num |-> Cardinality(common_patterns),
     den |-> Max(Cardinality(py_patterns) + Cardinality(go_patterns), 1)]

SimilarityScore(common_patterns, py_patterns, go_patterns) ==
    [num |-> Cardinality(common_patterns),
     den |-> Max(Cardinality(py_patterns) + Cardinality(go_patterns)
                   - Cardinality(common_patterns), 1)]

generate_cross_language_insights(py_result, other_result) ==
    LET py_entities == Get(py_result, "entities_count", 0)
        go_entities == Get(other_result, "entities_count", 0)
        py_patterns == Range(Get(py_result, "patterns", <<>>))
        go_patterns == Range(Get(other_result, "patterns", <<>>))
        common_patterns == py_patterns \cap go_patterns
        unique_py == UniquePy(py_patterns, go_patterns)
        unique_go == UniqueGo(py_patterns, go_patterns)
        insights ==
            <<IF py_entities > go_entities
              THEN <<"Python service has more complex structure", {}>>
              ELSE IF go_entities > py_entities
              THEN <<"Go service has more complex structure", {}>>
              ELSE <<"Services have similar complexity", {}>> >>
            \o (IF common_patterns # {}
                THEN << <<"Common patterns: ", common_patterns>> >>
                ELSE <<>>)
            \o (IF unique_py # {}
                THEN << <<"Python-specific patterns: ", unique_py>> >>
                ELSE <<>>)
            \o (IF unique_go # {}
                THEN << <<"Go-specific patterns: ", unique_go>> >>
                ELSE <<>>)
    IN  [exc |-> "none",
         insights |-> insights,
         common_patterns |-> ListOfSet(common_patterns),
         python_unique |-> ListOfSet(unique_py),
         go_unique |-> ListOfSet(unique_go),
         similarity_score |->
             SimilarityScore(common_patterns, py_patterns, go_patterns)]

(***************************************************************************)
(* JSON values at the HTTP boundary: request.get_json() and the body of    *)
(* the Go service's response.  A value carries its type.                   *)
(***************************************************************************)
None == [null |-> TRUE]
Str(s) == [str |-> s]
Num(n) == [num |-> n]
Dict(f) == [dict |-> f]
List(l) == [list |-> l]

IsStr(v) == DOMAIN v = {"str"}
IsDict(v) == DOMAIN v = {"dict"}

\* The truth value Python gives a JSON value in `if v:` and `not v`.
Truthy(v) ==
    CASE DOMAIN v = {"null"} -> FALSE
      [] DOMAIN v = {"str"} -> v.str # ""
      [] DOMAIN v = {"num"} -> v.num # 0
      [] DOMAIN v = {"dict"} -> DOMAIN v.dict # {}
      [] DOMAIN v = {"list"} -> v.list # <<>>

(***************************************************************************)
(* The clock.  time.time() is counted in ticks; int(time.time()) drops the *)
(* fraction of a second.                                                   *)
(***************************************************************************)
TicksPerSecond == 2
MaxClock == 3

\* int(time.time())
WholeSeconds(now) == now \div TicksPerSecond

Tick ==
    /\ clock < MaxClock
    /\ clock' = clock + 1
    /\ UNCHANGED <<processing_jobs, analysis_results, jobs, pc, frame,
                   response, calls, last_store, analysisVars, mergeVars>>

(***************************************************************************)
(* GET /health                                                             *)
(***************************************************************************)
HealthCheck ==
    /\ response' = [handler |-> "health_check", status |-> 200,
                    body |-> [status |-> "healthy",
                              service |-> "python_analyzer"]]
    /\ calls' = <<>>
    /\ UNCHANGED <<clock, processing_jobs, analysis_results, jobs, pc, frame,
                   last_store, analysisVars, mergeVars>>

(***************************************************************************)
(* POST /api/analyze/<language>                                            *)
(***************************************************************************)
Unsupported == [exc |-> "none", unsupported |-> TRUE]

LanguageAnalysisWithDefault(language, code_content) ==
    IF Lower(language) = "python" THEN
        IF IsStr(code_content) THEN analyze_python_code(code_content.str)
        ELSE Raise("AttributeError")
    ELSE IF Lower(language) = "go" THEN
        IF IsStr(code_content) THEN analyze_go_code(code_content.str)
        ELSE Raise("AttributeError")
    ELSE IF IsStr(code_content) THEN analyze_code_structure(code_content.str)
    ELSE Raise("AttributeError")

\* Lines 110-115: the dispatch on language.lower().
LanguageAnalysis(language, code_content) ==
    IF Lower(language) = "python" THEN
        IF IsStr(code_content) THEN analyze_python_code(code_content.str)
        ELSE Raise("AttributeError")
    ELSE IF Lower(language) = "go" THEN
        IF IsStr(code_content) THEN analyze_go_code(code_content.str)
        ELSE Raise("AttributeError")
    ELSE Unsupported

AnalysisId(now) == "analysis_" \o ToString(WholeSeconds(now))

\* The handler, which takes `elapsed` ticks between its first reading of the
\* clock and its last: the response and the store it leaves.
analyze_by_language(language, data, elapsed) ==
    LET request == [language |-> language, body |-> data]
        Error(status, msg) ==
            [response |-> [handler |-> "analyze_by_language",
                           request |-> request, status |-> status,
                           body |-> [error |-> msg]],
             analysis_results |-> analysis_results]
    IN
    IF ~IsDict(data) THEN Error(500, "AttributeError")
    ELSE
    LET code_content == Get(data.dict, "code", Str(""))
        start_time == clock
        result == LanguageAnalysis(language, code_content)
    IN
    IF Raised(result) THEN Error(500, result.exc)
    ELSE IF "unsupported" \in DOMAIN result
    THEN Error(400, "Unsupported language: " \o language)
    ELSE
    LET processing_time == (clock + elapsed) - start_time
        analysis ==
            [job_id |-> AnalysisId(clock + elapsed),
             entities_found |-> Get(result, "entities_count", 0),
             relationships_found |-> Get(result, "relationships_count", 0),
             language |-> language,
             processing_time |-> processing_time,
             patterns |-> Get(result, "patterns", <<>>)]
    IN  [response |-> [handler |-> "analyze_by_language",
                       request |-> request, status |-> 200,
                       body |-> [analysis_id |-> analysis.job_id,
                                 language |-> language,
                                 processing_time |-> processing_time,
                                 results |-> analysis,
                                 details |-> result]],
         analysis_results |->
             (analysis.job_id :> analysis) @@ analysis_results]

AnalyzeByLanguage(language, data, elapsed) ==
    /\ clock + elapsed <= MaxClock
    /\ clock' = clock + elapsed
    /\ LET handled == analyze_by_language(language, data, elapsed)
       IN  /\ response' = handled.response
           /\ analysis_results' = handled.analysis_results
    /\ calls' = <<>>
    /\ UNCHANGED <<processing_jobs, jobs, pc, frame, last_store,
                   analysisVars, mergeVars>>

(***************************************************************************)
(* GET /api/results/<analysis_id>                                          *)
(***************************************************************************)
get_analysis_results(analysis_id) ==
    IF analysis_id \in DOMAIN analysis_results
    THEN [handler |-> "get_analysis_results", request |-> analysis_id,
          status |-> 200, body |-> analysis_results[analysis_id]]
    ELSE [handler |-> "get_analysis_results", request |-> analysis_id,
          status |-> 404, body |-> [error |-> "Analysis not found"]]

GetAnalysisResults(analysis_id) ==
    /\ response' = get_analysis_results(analysis_id)
    /\ calls' = <<>>
    /\ UNCHANGED <<clock, processing_jobs, analysis_results, jobs, pc, frame,
                   last_store, analysisVars, mergeVars>>

(***************************************************************************)
(* POST /api/cross-language/sync and call_go_service.  What the Go service *)
(* does is the environment's choice: no answer within the timeout, no      *)
(* connection, or a response with a status code and a body.  A body that   *)
(* is not JSON makes response.json() raise; whether that exception is a    *)
(* RequestException depends on the requests library installed.             *)
(***************************************************************************)
call_go_service_any_status(endpoint, data, outcome) ==
    IF outcome.kind \in {"timeout", "connection_error"}
    THEN [exc |-> "none", value |-> None]
    ELSE IF "invalid" \in DOMAIN outcome.json
         THEN IF outcome.json.invalid = "RequestException"
              THEN [exc |-> "none", value |-> None]
              ELSE Raise("ValueError")
         ELSE [exc |-> "none", value |-> outcome.json]

call_go_service(endpoint, data, outcome) ==
    IF outcome.kind \in {"timeout", "connection_error"}
    THEN [exc |-> "none", value |-> None]
    ELSE IF outcome.status_code = 200
    THEN IF "invalid" \in DOMAIN outcome.json
         THEN IF outcome.json.invalid = "RequestException"
              THEN [exc |-> "none", value |-> None]
              ELSE Raise("ValueError")
         ELSE [exc |-> "none", value |-> outcome.json]
    ELSE [exc |-> "none", value |-> None]

\* The handler: the response and the calls it made, in order.
synchronize_with_go_service(data, outcome) ==
    LET request == [body |-> data, outcome |-> outcome]
        Error(msg, made) ==
            [response |-> [handler |-> "synchronize_with_go_service",
                           request |-> request, status |-> 500,
                           body |-> [error |-> msg]],
             calls |-> made]
        go_call == call_go_service("/api/analyze", data, outcome)
        Called(fn, returned) == [fn |-> fn, returned |-> returned]
    IN
    IF Raised(go_call)
    THEN Error(go_call.exc, <<Called("call_go_service", "raised")>>)
    ELSE
    LET go_response == go_call.value
        c1 == <<Called("call_go_service",
                       IF go_response = None THEN "None" ELSE "value")>>
    IN
    IF ~Truthy(go_response)
    THEN Error("Failed to communicate with Go service", c1)
    ELSE IF ~IsDict(data) THEN Error("AttributeError", c1)
    ELSE
    LET code == Get(data.dict, "code", Str(""))
        python_analysis ==
            IF IsStr(code) THEN analyze_code_structure(code.str)
            ELSE Raise("AttributeError")
    IN
    IF Raised(python_analysis)
    THEN Error(python_analysis.exc,
               c1 \o <<Called("analyze_code_structure", "raised")>>)
    ELSE
    LET c2 == c1 \o <<Called("analyze_code_structure", "value")>> IN
    IF ~IsDict(go_response)
    THEN Error("AttributeError",
               c2 \o <<Called("generate_cross_language_insights", "raised")>>)
    ELSE [response |->
             [handler |-> "synchronize_with_go_service",
              request |-> request, status |-> 200,
              body |-> [python_analysis |-> python_analysis,
                        go_analysis |-> go_response,
                        cross_language_insights |->
                            generate_cross_language_insights(
                                python_analysis, go_response.dict),
                        synchronization_status |-> "success"]],
          calls |->
             c2 \o <<Called("generate_cross_language_insights", "value")>>]

SynchronizeWithGoService(data, outcome) ==
    /\ LET handled == synchronize_with_go_service(data, outcome)
       IN  /\ response' = handled.response
           /\ calls' = handled.calls
    /\ UNCHANGED <<clock, processing_jobs, analysis_results, jobs, pc, frame,
                   last_store, analysisVars, mergeVars>>

(***************************************************************************)
(* POST /api/process.  Flask serves requests on concurrent threads, so the *)
(* handler is taken in the steps between which another request may run:    *)
(* lines 57-71 (the request is read and the job built), line 73 (the job   *)
(* is put into processing_jobs) and lines 76-96 (the analysis, the update  *)
(* of the job and the response).  A ProcessingJob is an object: `jobs`     *)
(* holds the objects by reference, the reference of a request's job being  *)
(* the request's number, and processing_jobs holds references.  The two    *)
(* readings of the clock at lines 67 and 70 fall into one tick; frame.now  *)
(* keeps the first, from which the id is made.                             *)
(***************************************************************************)
MaxRequests == 2

Requests == 1..MaxRequests

\* f"job_{int(time.time())}"
JobId(now) == "job_" \o ToString(WholeSeconds(now))

\* Lines 76-83: the dispatch on action.
ProcessAction(action, input_data) ==
    IF action = Str("analyze") THEN
        IF IsStr(input_data) THEN analyze_code_structure(input_data.str)
        ELSE Raise("AttributeError")
    ELSE IF action = Str("extract_patterns") THEN
        IF IsStr(input_data) THEN extract_design_patterns(input_data.str)
        ELSE Raise("TypeError")
    ELSE IF action = Str("generate_report") THEN
        IF IsStr(input_data) THEN generate_analysis_report(input_data.str)
        ELSE Raise("AttributeError")
    ELSE [exc |-> "none", error |-> <<"Unknown action: ", action>>]

\* Lines 57-71.  A request starts once the requests before it have started.
ProcessDataBegin(r, data) ==
    /\ pc[r] = "new"
    /\ \A q \in Requests : q < r => pc[q] # "new"
    /\ IF ~Truthy(data)
       THEN /\ response' = [handler |-> "process_data", request |-> r,
                            status |-> 400,
                            body |-> [error |-> "No data provided"]]
            /\ pc' = [pc EXCEPT ![r] = "done"]
            /\ UNCHANGED <<jobs, frame>>
       ELSE IF ~IsDict(data)
       THEN /\ response' = [handler |-> "process_data", request |-> r,
                            status |-> 500,
                            body |-> [error |-> "AttributeError"]]
            /\ pc' = [pc EXCEPT ![r] = "done"]
            /\ UNCHANGED <<jobs, frame>>
       ELSE LET action == Get(data.dict, "action", Str("analyze"))
                input_data == Get(data.dict, "data", Str(""))
                job == [id |-> JobId(clock), action |-> action,
                        data |-> input_data, timestamp |-> clock,
                        status |-> "pending", result |-> None]
            IN  /\ jobs' = (r :> job) @@ jobs
                /\ frame' = [frame EXCEPT ![r] =
                                [action |-> action, input_data |-> input_data,
                                 now |-> clock, job |-> r]]
                /\ pc' = [pc EXCEPT ![r] = "store"]
                /\ UNCHANGED response
    /\ calls' = <<>>
    /\ UNCHANGED <<clock, processing_jobs, analysis_results, last_store,
                   analysisVars, mergeVars>>

StoreJobIfAbsent(store, id, ref) ==
    IF id \in DOMAIN store THEN store ELSE (id :> ref) @@ store

\* processing_jobs[job.id] = job
StoreJob(store, id, ref) == (id :> ref) @@ store

\* Line 73.
ProcessDataStore(r) ==
    /\ pc[r] = "store"
    /\ processing_jobs' =
           StoreJob(processing_jobs, jobs[frame[r].job].id, frame[r].job)
    /\ last_store' = (jobs[frame[r].job].id :> r) @@ last_store
    /\ pc' = [pc EXCEPT ![r] = "process"]
    /\ UNCHANGED <<clock, analysis_results, jobs, frame, response, calls,
                   analysisVars, mergeVars>>

\* Lines 76-96.  json.dumps(result) is kept as the result it serialises.
ProcessDataFinish(r) ==
    /\ pc[r] = "process"
    /\ LET result == ProcessAction(frame[r].action, frame[r].input_data)
           job == frame[r].job
       IN  IF Raised(result)
           THEN /\ response' = [handler |-> "process_data", request |-> r,
                                status |-> 500,
                                body |-> [error |-> result.exc]]
                /\ UNCHANGED jobs
           ELSE /\ jobs' = [jobs EXCEPT ![job].status = "completed",
                                        ![job].result = [dumps |-> result]]
                /\ response' = [handler |-> "process_data", request |-> r,
                                status |-> 200,
                                body |-> [job_id |-> jobs[job].id,
                                          status |-> "completed",
                                          result |-> result]]
    /\ pc' = [pc EXCEPT ![r] = "done"]
    /\ calls' = <<>>
    /\ UNCHANGED <<clock, processing_jobs, analysis_results, frame,
                   last_store, analysisVars, mergeVars>>

(***************************************************************************)
(* GET /api/jobs/<job_id>                                                  *)
(***************************************************************************)
get_job_status(job_id) ==
    IF job_id \in DOMAIN processing_jobs
    THEN [handler |-> "get_job_status", request |-> job_id, status |-> 200,
          body |-> jobs[processing_jobs[job_id]]]
    ELSE [handler |-> "get_job_status", request |-> job_id, status |-> 404,
          body |-> [error |-> "Job not found"]]

GetJobStatus(job_id) ==
    /\ response' = get_job_status(job_id)
    /\ calls' = <<>>
    /\ UNCHANGED <<clock, processing_jobs, analysis_results, jobs, pc, frame,
                   last_store, analysisVars, mergeVars>>

(***************************************************************************)
(* The values a variable holds while its part of the program is not run.   *)
(***************************************************************************)
NoCall == [fn |-> "none"]
NoResponse == [handler |-> "none"]

AnalysisIdle == text = "" /\ nfrags = 0 /\ out = NoCall

MergeIdle ==
    /\ python_result = <<>>
    /\ go_result = <<>>
    /\ merged = NoCall
    /\ swapped = NoCall

ServiceIdle ==
    /\ clock = 0
    /\ processing_jobs = <<>>
    /\ analysis_results = <<>>
    /\ jobs = <<>>
    /\ pc = <<>>
    /\ frame = <<>>
    /\ response = NoResponse
    /\ calls = <<>>
    /\ last_store = <<>>

(***************************************************************************)
(* The analysis functions as the threads of the service run them: one      *)
(* statement group at a time, each invocation on its own local variables   *)
(* (frame), while other threads run and the handlers' store lines (73 and  *)
(* 129) write processing_jobs and analysis_results.                        *)
(***************************************************************************)
MaxThreads == 2

Threads == 1..MaxThreads

IdleFrame ==
    [call |-> NoCall, i |-> 0, acc |-> EmptyScan, structure |-> NoCall,
     design |-> NoCall, result |-> NoCall]

ScanningFns ==
    {"analyze_code_structure", "analyze_python_code", "analyze_go_code",
     "generate_analysis_report"}

LocalsShared(t) == 1

\* Lines 183-185: entities, relationships and patterns are locals of the
\* invocation, so thread t's scan works on frame[t].
Locals(t) == t

\* The call: the arguments are bound and the locals initialised.
Invoke(t, call) ==
    /\ pc[t] = "idle"
    /\ frame' = [frame EXCEPT ![t] = [IdleFrame EXCEPT !.call = call],
                              ![Locals(t)].acc = EmptyScan]
    /\ pc' = [pc EXCEPT ![t] =
                 IF call.fn \in ScanningFns THEN "scan"
                 ELSE IF call.fn = "extract_design_patterns" THEN "extract"
                 ELSE IF call.fn = "calculate_complexity_score" THEN "score"
                 ELSE "merge"]
    /\ UNCHANGED <<clock, processing_jobs, analysis_results, jobs, response,
                   calls, last_store, analysisVars, mergeVars>>

\* Lines 188-221: one iteration of the scan's loop.
ScanStep(t) ==
    /\ pc[t] = "scan"
    /\ LET lines == Split(frame[t].call.code, "\n")
           i == frame[t].i
       IN  /\ i < Len(lines)
           /\ frame' = [frame EXCEPT
                  ![t].i = i + 1,
                  ![Locals(t)].acc =
                      ScanLine(frame[Locals(t)].acc, lines[i + 1], i)]
    /\ UNCHANGED <<clock, processing_jobs, analysis_results, jobs, pc,
                   response, calls, last_store, analysisVars, mergeVars>>

\* Lines 223-238: the whole-text checks and the scan's return.
ScanReturn(t) ==
    /\ pc[t] = "scan"
    /\ frame[t].i = Len(Split(frame[t].call.code, "\n"))
    /\ LET structure ==
               ScanResult(frame[Locals(t)].acc, frame[t].call.code)
           fn == frame[t].call.fn
       IN  /\ frame' = [frame EXCEPT
                  ![t].structure = structure,
                  ![t].result = IF fn = "analyze_code_structure"
                                THEN structure ELSE @]
           /\ pc' = [pc EXCEPT ![t] =
                  IF fn = "analyze_code_structure" THEN "return"
                  ELSE IF fn = "generate_analysis_report" THEN "extract"
                  ELSE "language_patterns"]
    /\ UNCHANGED <<clock, processing_jobs, analysis_results, jobs, response,
                   calls, last_store, analysisVars, mergeVars>>

\* Lines 244-259 and 265-280.
LanguagePatternsStep(t) ==
    /\ pc[t] = "language_patterns"
    /\ frame' = [frame EXCEPT ![t].result =
           IF frame[t].call.fn = "analyze_python_code"
           THEN AddPythonPatterns(frame[t].structure, frame[t].call.code)
           ELSE AddGoPatterns(frame[t].structure, frame[t].call.code)]
    /\ pc' = [pc EXCEPT ![t] = "return"]
    /\ UNCHANGED <<clock, processing_jobs, analysis_results, jobs, response,
                   calls, last_store, analysisVars, mergeVars>>

\* Lines 282-306, called by a handler or by generate_analysis_report.
ExtractStep(t) ==
    /\ pc[t] = "extract"
    /\ LET design == extract_design_patterns(frame[t].call.code)
           fn == frame[t].call.fn
       IN  /\ frame' = [frame EXCEPT
                  ![t].design = design,
                  ![t].result = IF fn = "extract_design_patterns"
                                THEN design ELSE @]
           /\ pc' = [pc EXCEPT ![t] =
                  IF fn = "extract_design_patterns" THEN "return"
                  ELSE "report"]
    /\ UNCHANGED <<clock, processing_jobs, analysis_results, jobs, response,
                   calls, last_store, analysisVars, mergeVars>>

\* Lines 313-323.
ReportStep(t) ==
    /\ pc[t] = "report"
    /\ frame' = [frame EXCEPT ![t].result =
                    BuildReport(frame[t].structure, frame[t].design)]
    /\ pc' = [pc EXCEPT ![t] = "return"]
    /\ UNCHANGED <<clock, processing_jobs, analysis_results, jobs, response,
                   calls, last_store, analysisVars, mergeVars>>

\* Lines 325-331.
ScoreStep(t) ==
    /\ pc[t] = "score"
    /\ frame' = [frame EXCEPT ![t].result =
                    calculate_complexity_score(frame[t].call.structure,
                                               frame[t].call.patterns)]
    /\ pc' = [pc EXCEPT ![t] = "return"]
    /\ UNCHANGED <<clock, processing_jobs, analysis_results, jobs, response,
                   calls, last_store, analysisVars, mergeVars>>

\* Lines 333-370.
MergeStep(t) ==
    /\ pc[t] = "merge"
    /\ frame' = [frame EXCEPT ![t].result =
                    generate_cross_language_insights(
                        frame[t].call.python_result, frame[t].call.go_result)]
    /\ pc' = [pc EXCEPT ![t] = "return"]
    /\ UNCHANGED <<clock, processing_jobs, analysis_results, jobs, response,
                   calls, last_store, analysisVars, mergeVars>>

\* The caller takes the result; the thread is free for another call.
Return(t) ==
    /\ pc[t] = "return"
    /\ pc' = [pc EXCEPT ![t] = "idle"]
    /\ frame' = [frame EXCEPT ![t] = IdleFrame]
    /\ UNCHANGED <<clock, processing_jobs, analysis_results, jobs, response,
                   calls, last_store, analysisVars, mergeVars>>

\* Line 73, run by a handler on another thread.
HandlerStoresJob ==
    /\ processing_jobs = <<>>
    /\ processing_jobs' = StoreJob(processing_jobs, JobId(clock), 0)
    /\ UNCHANGED <<clock, analysis_results, jobs, pc, frame, response, calls,
                   last_store, analysisVars, mergeVars>>

\* Line 129, run by a handler on another thread.
HandlerStoresAnalysis ==
    /\ analysis_results = <<>>
    /\ analysis_results' =
           (AnalysisId(clock) :>
               [job_id |-> AnalysisId(clock), entities_found |-> 0,
                relationships_found |-> 0, language |-> "go",
                processing_time |-> 0, patterns |-> <<>>])
           @@ analysis_results
    /\ UNCHANGED <<clock, processing_jobs, jobs, pc, frame, response, calls,
                   last_store, analysisVars, mergeVars>>

(***************************************************************************)
(* Spec: the analysis endpoints of the service, one request at a time.     *)
(***************************************************************************)
Languages == {"Python", "GO", "rust"}

CodeSample == "def foo(\nmake(chan"

AnalyzeBodies == {None, Dict("code" :> Str(CodeSample)), Dict("code" :> Num(7))}

SyncBodies == {None, Dict("code" :> Str(CodeSample))}

Elapsed == {0, 1}

\* What the Go service's analysis looks like to the merger.
GoAnalysis ==
    [entities_count |-> 2, patterns |-> <<"channel_usage", "goroutine_launch">>]

GoResponse(status_code, json) ==
    [kind |-> "response", status_code |-> status_code, json |-> json]

GoOutcomes ==
    {[kind |-> "timeout"], [kind |-> "connection_error"],
     GoResponse(500, Dict(GoAnalysis)),
     GoResponse(404, [invalid |-> "RequestException"]),
     GoResponse(200, Dict(GoAnalysis)),
     GoResponse(200, Dict(<<>>)),
     GoResponse(200, List(<<1>>)),
     GoResponse(200, [invalid |-> "RequestException"]),
     GoResponse(200, [invalid |-> "ValueError"])}

AnalysisIds == {AnalysisId(t) : t \in 0..MaxClock} \cup {"analysis_x"}

Init == ServiceIdle /\ AnalysisIdle /\ MergeIdle

Next ==
    \/ Tick
    \/ HealthCheck
    \/ \E language \in Languages, data \in AnalyzeBodies, elapsed \in Elapsed :
          AnalyzeByLanguage(language, data, elapsed)
    \/ \E analysis_id \in AnalysisIds : GetAnalysisResults(analysis_id)
    \/ \E data \in SyncBodies, outcome \in GoOutcomes :
          SynchronizeWithGoService(data, outcome)

Spec == Init /\ [][Next]_vars

(***************************************************************************)
(* SpecJobs: the job endpoints, with up to MaxRequests process_data        *)
(* requests interleaved.                                                   *)
(***************************************************************************)
ProcessBodies ==
    {None,
     Dict("data" :> Str("func Foo(")),
     Dict(("action" :> Str("generate_report")) @@ ("data" :> Num(7))),
     Dict("action" :> Str("transform"))}

JobIds == {JobId(t) : t \in 0..MaxClock} \cup {"job_x"}

InitJobs ==
    /\ clock = 0
    /\ processing_jobs = <<>>
    /\ analysis_results = <<>>
    /\ jobs = <<>>
    /\ pc = [r \in Requests |-> "new"]
    /\ frame = [r \in Requests |-> <<>>]
    /\ response = NoResponse
    /\ calls = <<>>
    /\ last_store = <<>>
    /\ AnalysisIdle
    /\ MergeIdle

NextJobs ==
    \/ Tick
    \/ \E r \in Requests, data \in ProcessBodies : ProcessDataBegin(r, data)
    \/ \E r \in Requests : ProcessDataStore(r)
    \/ \E r \in Requests : ProcessDataFinish(r)
    \/ \E job_id \in JobIds : GetJobStatus(job_id)

SpecJobs == InitJobs /\ [][NextJobs]_vars

(***************************************************************************)
(* SpecConcurrent: MaxThreads threads call the analysis functions while    *)
(* the stores are written.                                                 *)
(***************************************************************************)
LaunchSample == "func Foo(\ngo worker("

ConcurrentCalls ==
    {[fn |-> f, code |-> c] :
        f \in {"analyze_code_structure", "generate_analysis_report"},
        c \in {CodeSample, LaunchSample}}
    \cup {[fn |-> f, code |-> CodeSample] :
             f \in {"analyze_python_code", "analyze_go_code",
                    "extract_design_patterns"}}
    \cup {[fn |-> "calculate_complexity_score",
           structure |-> analyze_code_structure(LaunchSample),
           patterns |-> extract_design_patterns(LaunchSample)],
          [fn |-> "generate_cross_language_insights",
           python_result |-> analyze_code_structure(CodeSample),
           go_result |-> GoAnalysis]}

InitConcurrent ==
    /\ clock = 0
    /\ processing_jobs = <<>>
    /\ analysis_results = <<>>
    /\ jobs = <<>>
    /\ pc = [t \in Threads |-> "idle"]
    /\ frame = [t \in Threads |-> IdleFrame]
    /\ response = NoResponse
    /\ calls = <<>>
    /\ last_store = <<>>
    /\ AnalysisIdle
    /\ MergeIdle

NextConcurrent ==
    \/ \E t \in Threads, call \in ConcurrentCalls : Invoke(t, call)
    \/ \E t \in Threads : ScanStep(t)
    \/ \E t \in Threads : ScanReturn(t)
    \/ \E t \in Threads : LanguagePatternsStep(t)
    \/ \E t \in Threads : ExtractStep(t)
    \/ \E t \in Threads : ReportStep(t)
    \/ \E t \in Threads : ScoreStep(t)
    \/ \E t \in Threads : MergeStep(t)
    \/ \E t \in Threads : Return(t)
    \/ HandlerStoresJob
    \/ HandlerStoresAnalysis

SpecConcurrent == InitConcurrent /\ [][NextConcurrent]_vars

(***************************************************************************)
(* SpecAnalysis: the analysis functions applied to texts built from        *)
(* fragments of source code, complete and malformed.                       *)
(***************************************************************************)
Fragments ==
    {"func ", "func Foo(", "type ", "go ", "go worker(", "(", " ", "\n",
     "make(chan", "select {", "goroutine"}

AddFragment(f) ==
    /\ nfrags < MaxFrags
    /\ text' = text \o f
    /\ nfrags' = nfrags + 1
    /\ out' = NoCall
    /\ UNCHANGED <<mergeVars, serviceVars>>

CallAnalyzeCodeStructure ==
    /\ out' = [fn |-> "analyze_code_structure",
               result |-> analyze_code_structure(text)]
    /\ UNCHANGED <<text, nfrags, mergeVars, serviceVars>>

CallExtractDesignPatterns ==
    /\ out' = [fn |-> "extract_design_patterns",
               result |-> extract_design_patterns(text)]
    /\ UNCHANGED <<text, nfrags, mergeVars, serviceVars>>

CallGenerateAnalysisReport ==
    /\ out' = [fn |-> "generate_analysis_report",
               result |-> generate_analysis_report(text)]
    /\ UNCHANGED <<text, nfrags, mergeVars, serviceVars>>

InitAnalysis == AnalysisIdle /\ MergeIdle /\ ServiceIdle

NextAnalysis ==
    \/ \E f \in Fragments : AddFragment(f)
    \/ CallAnalyzeCodeStructure
    \/ CallExtractDesignPatterns
    \/ CallGenerateAnalysisReport

SpecAnalysis == InitAnalysis /\ [][NextAnalysis]_vars

(***************************************************************************)
(* SpecMerge: the merger applied to two analysis results, in both orders.  *)
(***************************************************************************)
PatternTags == {"channel_usage", "select_pattern", "async_function"}

BoundedSeq(S, n) == UNION {[1..k -> S] : k \in 0..n}

\* An analysis result as the merger reads it: either key may be missing.
MergeInputs ==
    {ec @@ pt :
        ec \in {<<>>} \cup {("entities_count" :> n) : n \in 0..MaxEntities},
        pt \in {<<>>} \cup {("patterns" :> l) :
                               l \in BoundedSeq(PatternTags, MaxPatterns)}}

CallMerge ==
    /\ merged' = [fn |-> "generate_cross_language_insights",
                  result |-> generate_cross_language_insights(python_result,
                                                              go_result)]
    /\ UNCHANGED <<python_result, go_result, swapped, analysisVars,
                   serviceVars>>

CallMergeSwapped ==
    /\ swapped' = [fn |-> "generate_cross_language_insights",
                   result |-> generate_cross_language_insights(go_result,
                                                               python_result)]
    /\ UNCHANGED <<python_result, go_result, merged, analysisVars,
                   serviceVars>>

InitMerge ==
    /\ python_result \in MergeInputs
    /\ go_result \in MergeInputs
    /\ merged = NoCall
    /\ swapped = NoCall
    /\ AnalysisIdle
    /\ ServiceIdle

NextMerge == CallMerge \/ CallMergeSwapped

SpecMerge == InitMerge /\ [][NextMerge]_vars

(***************************************************************************)
(* Claims about the analysis functions (SpecAnalysis).                     *)
(***************************************************************************)
Scanned == out.fn = "analyze_code_structure"
Reported == out.fn = "generate_analysis_report"

Lines(t) == Split(t, "\n")

\* C3: analyze_code_structure returns a result and raises nothing for every
\* text, and on every line that passes a prefix test after trimming, the
\* token the code indexes exists: the last token before "(" of a func/def
\* line, the second token of a type/class line and of a go line.
C3_ScanNeverRaises ==
    /\ (Scanned \/ Reported) => out.result.exc = "none"
    /\ \A i \in 1..Len(Lines(text)) :
          LET line == Strip(Lines(text)[i]) IN
          /\ (StartsWith(line, "func ") \/ StartsWith(line, "def "))
                => HasItem(SplitWs(Item(Split(line, "("), 0)), -1)
          /\ (StartsWith(line, "type ") \/ StartsWith(line, "class ")
              \/ StartsWith(line, "go "))
                => HasItem(SplitWs(line), 1)

\* A malformed declaration ("type (") and a malformed launch ("go (") scanned.
C3_Witness ==
    /\ Scanned
    /\ out.result.exc = "none"
    /\ \/ \E i \in DOMAIN out.result.entities :
             out.result.entities[i].name = ""
       \/ \E i \in DOMAIN out.result.relationships :
             out.result.relationships[i].target = ""

Ascending(seq) ==
    \A i, j \in DOMAIN seq : i < j => seq[i].line < seq[j].line

\* C6: entities and relationships are each in ascending line order, every
\* line number lies in 1..number of lines, no two entities share (kind,
\* name, line), and a line gives at most one entity or relationship.
C6_LineOrder ==
    Scanned /\ out.result.exc = "none" =>
        LET es == out.result.entities
            rs == out.result.relationships
            n == Len(Lines(text))
        IN  /\ Ascending(es)
            /\ Ascending(rs)
            /\ \A i \in DOMAIN es : es[i].line \in 1..n
            /\ \A i \in DOMAIN rs : rs[i].line \in 1..n
            /\ \A i, j \in DOMAIN es : es[i] = es[j] => i = j
            /\ \A i \in DOMAIN es : \A j \in DOMAIN rs :
                  es[i].line # rs[j].line

\* Two entities of the same kind and name on different lines.
C6_Witness ==
    /\ Scanned
    /\ out.result.exc = "none"
    /\ Len(out.result.entities) >= 2
    /\ out.result.entities[1].name = out.result.entities[2].name
    /\ out.result.entities[1].type = out.result.entities[2].type

\* C7: worker_pool needs a channel marker, a task-launch marker and the
\* literal "worker"; in particular a text in which the scanner finds a
\* channel (channel_usage) and a task launch (a line beginning with "go ",
\* goroutine_launch) and which contains "worker" is tagged worker_pool.
C7_WorkerPoolOnLaunch ==
    Reported /\ out.result.exc = "none" =>
        (/\ {"channel_usage", "goroutine_launch"}
               \subseteq Range(out.result.structure.patterns)
         /\ Contains(text, "worker")
         => "worker_pool" \in Range(out.result.patterns.design_patterns))

\* C9: when the scanner reports channel_usage and select_pattern, the
\* extractor reports pipeline for the same text.
C9_ChannelSelectIsPipeline ==
    Reported /\ out.result.exc = "none" =>
        ({"channel_usage", "select_pattern"}
            \subseteq Range(out.result.structure.patterns)
         => "pipeline" \in Range(out.result.patterns.design_patterns))

\* The scanner's channel marker is "make(chan", with no space after it.
C9_Witness ==
    /\ Reported
    /\ out.result.exc = "none"
    /\ {"channel_usage", "select_pattern"}
          \subseteq Range(out.result.structure.patterns)
    /\ ~Contains(text, "chan ")
    /\ "pipeline" \in Range(out.result.patterns.design_patterns)

(***************************************************************************)
(* Claims about the merger (SpecMerge).                                    *)
(***************************************************************************)
Merged == merged.fn = "generate_cross_language_insights"
Swapped == swapped.fn = "generate_cross_language_insights"

InputPatterns(d) == Range(Get(d, "patterns", <<>>))

\* C4: similarity_score lies in [0, 1]; it is 0 when both pattern sets are
\* empty and 1 when they are identical and not empty.
C4_SimilarityBounds ==
    Merged =>
        LET score == merged.result.similarity_score
            A == InputPatterns(python_result)
            B == InputPatterns(go_result)
        IN  /\ score.den >= 1
            /\ 0 <= score.num /\ score.num <= score.den
            /\ (A = {} /\ B = {} => score.num = 0)
            /\ (A = B /\ A # {} => score.num = score.den)

\* Identical pattern sets given as different lists, with a repetition.
C4_Witness ==
    /\ Merged
    /\ InputPatterns(python_result) = InputPatterns(go_result)
    /\ Cardinality(InputPatterns(python_result)) = 1
    /\ Len(Get(python_result, "patterns", <<>>)) = 2
    /\ merged.result.similarity_score = [num |-> 1, den |-> 1]

\* C5: swapping the arguments leaves common_patterns the same set,
\* exchanges the two unique sets and leaves similarity_score unchanged.
C5_MergeSymmetry ==
    Merged /\ Swapped =>
        /\ Range(merged.result.common_patterns)
              = Range(swapped.result.common_patterns)
        /\ Range(merged.result.python_unique)
              = Range(swapped.result.go_unique)
        /\ Range(merged.result.go_unique)
              = Range(swapped.result.python_unique)
        /\ merged.result.similarity_score = swapped.result.similarity_score

\* Both orders merged, for inputs with a common and two unique patterns.
C5_Witness ==
    /\ Merged
    /\ Swapped
    /\ merged.result.common_patterns # <<>>
    /\ merged.result.python_unique # <<>>
    /\ merged.result.go_unique # <<>>

(***************************************************************************)
(* Claims about the analysis endpoints (Spec).                             *)
(***************************************************************************)
Synced == response.handler = "synchronize_with_go_service"

MergerCalled ==
    \E i \in DOMAIN calls : calls[i].fn = "generate_cross_language_insights"

GoAnswered200(outcome) ==
    outcome.kind = "response" /\ outcome.status_code = 200

\* C1: the merger is invoked only after call_go_service returned a result
\* from a 200 response; when the Go call times out, fails to connect or
\* answers with another status, call_go_service returns None, the sync
\* operation answers with an error and nothing else, and the merger is not
\* invoked.
C1_NoMergeWithoutPeer ==
    Synced =>
        LET outcome == response.request.outcome IN
        /\ MergerCalled =>
              /\ GoAnswered200(outcome)
              /\ calls[1] = [fn |-> "call_go_service", returned |-> "value"]
        /\ ~GoAnswered200(outcome) =>
              /\ calls = <<[fn |-> "call_go_service", returned |-> "None"]>>
              /\ response.status = 500
              /\ DOMAIN response.body = {"error"}

\* The Go service answered 500 with a well-formed analysis in its body.
C1_Witness ==
    /\ Synced
    /\ response.request.outcome.kind = "response"
    /\ response.request.outcome.status_code = 500
    /\ IsDict(response.request.outcome.json)
    /\ IsDict(response.request.body)
    /\ response.status = 500

SupportedLanguage(language) == Lower(language) \in {"python", "go"}

UnsupportedLanguages == {l \in Languages : ~SupportedLanguage(l)}

\* C2: for a language selector other than "python" and "go", compared
\* without regard to case, analyze_by_language answers with an error and
\* leaves analysis_results as it was.
C2_UnsupportedLanguage ==
    [][\A language \in UnsupportedLanguages :
          \A data \in AnalyzeBodies, elapsed \in Elapsed :
             AnalyzeByLanguage(language, data, elapsed)
             => /\ response'.status \in {400, 500}
                /\ DOMAIN response'.body = {"error"}
                /\ analysis_results' = analysis_results]_vars

\* An unsupported language refused while the store holds a result.
C2_Witness ==
    /\ response.handler = "analyze_by_language"
    /\ ~SupportedLanguage(response.request.language)
    /\ IsDict(response.request.body)
    /\ response.status = 400
    /\ analysis_results # <<>>

(***************************************************************************)
(* Claims about the job endpoints (SpecJobs).                              *)
(***************************************************************************)
\* The requests whose job line 73 has put into processing_jobs.
Stored == {r \in DOMAIN jobs : pc[r] \in {"process", "done"}}

\* C10: a job's id is fixed by the whole second of the clock alone, so two
\* requests handled in the same second get the same id and the later
\* insertion replaces the earlier; no entry is deleted, so the store holds
\* one job per second in which a request was stored; and a lookup by id
\* returns the job stored last under that id.
C10_JobIdPerSecond ==
    /\ \A r, q \in DOMAIN jobs :
          WholeSeconds(frame[r].now) = WholeSeconds(frame[q].now)
             <=> jobs[r].id = jobs[q].id
    /\ DOMAIN processing_jobs = {jobs[r].id : r \in Stored}
    /\ Cardinality(DOMAIN processing_jobs)
          = Cardinality({WholeSeconds(frame[r].now) : r \in Stored})
    /\ \A job_id \in JobIds :
          IF \E r \in Stored : jobs[r].id = job_id
          THEN /\ get_job_status(job_id).status = 200
               /\ get_job_status(job_id).body = jobs[last_store[job_id]]
          ELSE get_job_status(job_id).status = 404

\* Two requests of one second, both stored, the store holding one job: that
\* of the request that started first and stored last.
C10_Witness ==
    \E r, q \in Stored :
        /\ r < q
        /\ jobs[r].id = jobs[q].id
        /\ jobs[r].action # jobs[q].action
        /\ Cardinality(DOMAIN processing_jobs) = 1
        /\ pc[q] = "done"
        /\ response.handler = "get_job_status"
        /\ response.status = 200
        /\ response.body = jobs[r]

(***************************************************************************)
(* Claims about concurrent invocations (SpecConcurrent).                   *)
(***************************************************************************)
\* What a call returns when it runs alone, from its arguments only.
Alone(call) ==
    CASE call.fn = "analyze_code_structure" ->
            analyze_code_structure(call.code)
      [] call.fn = "analyze_python_code" -> analyze_python_code(call.code)
      [] call.fn = "analyze_go_code" -> analyze_go_code(call.code)
      [] call.fn = "extract_design_patterns" ->
            extract_design_patterns(call.code)
      [] call.fn = "generate_analysis_report" ->
            generate_analysis_report(call.code)
      [] call.fn = "calculate_complexity_score" ->
            calculate_complexity_score(call.structure, call.patterns)
      [] call.fn = "generate_cross_language_insights" ->
            generate_cross_language_insights(call.python_result,
                                             call.go_result)

\* C8: the analysis functions neither read nor write processing_jobs,
\* analysis_results or any other shared state: a step that changes a store
\* is no step of an analysis function, and under every interleaving each
\* invocation returns what it returns when run alone on its arguments.
C8_AnalysisIsolated ==
    /\ [](\A t \in Threads :
             pc[t] = "return" => frame[t].result = Alone(frame[t].call))
    /\ [][<<processing_jobs, analysis_results>>'
             # <<processing_jobs, analysis_results>>
          => UNCHANGED <<pc, frame>>]_vars

\* Two scans of different texts under way at once, one returning while the
\* other is in its loop, after both stores were written.
C8_Witness ==
    \E t, u \in Threads :
        /\ pc[t] = "return"
        /\ frame[t].call.fn = "generate_analysis_report"
        /\ pc[u] = "scan"
        /\ frame[u].i = 1
        /\ frame[u].call.code # frame[t].call.code
        /\ processing_jobs # <<>>
        /\ analysis_results # <<>>

====
